---------------------------- MODULE Spec2Model ----------------------------
(***************************************************************************)
(* Analogue clock with second-hand physics.                                *)
(*                                                                         *)
(* The repository holds two programs, and the model holds both, each in    *)
(* its own actions over the state of one clock instance:                   *)
(*   - src/src/analogue-clock.worker.js: AnalogueClockRenderer, the        *)
(*     render loop with its frame throttle, init and destroy, and the      *)
(*     worker's message handler (InitBegin, InitResume, AnimationLoop,     *)
(*     Destroy).  Its "## Animation ##" step is a TODO: an accepted frame  *)
(*     updates the throttle and renders, and moves no hand;                *)
(*   - src/unnamed/part_000 (the technical specification), section 6:      *)
(*     the requestAnimationFrame callback logic in pseudocode, with its    *)
(*     own throttle, the smooth hand angles, the second-hand physics and   *)
(*     the drawing (initializeClock, animationLoop);                       *)
(*   - src/src/analogue-clock.js: AnalogueClock, the page side that owns   *)
(*     the worker (PageConstruct, PageResize, PageLogoLoaded,              *)
(*     PageDestroy).                                                       *)
(*                                                                         *)
(* Angles are exact rationals, held as integers in units of                *)
(* 1/AngleScale degree.  AngleScale is the creep duration, so the creep    *)
(* progress (a multiple of 1/creepDurationMs) times the creep angle is an  *)
(* integer number of units.  Floating-point rounding of the JavaScript     *)
(* numbers (below 1e-13 degree) is not represented.                        *)
(***************************************************************************)
EXTENDS Integers, FiniteSets, Sequences, TLC

----------------------------------------------------------------------------
(* Bounds of the model *)

\* Scheduler timestamps (ms) are explored up to this value.
MaxTimestamp == 120

\* Accepted frames since the last tick are counted up to this value.
MaxFramesSinceTick == 3

\* Gaps (ms) between two consecutive scheduler callbacks.
Deltas == {5, 20, 25}

\* Gap (ms) between the callbacks of a steady scheduler.
SteadyDelta == 21

\* Seconds the wall clock may show when the clock is started.
StartSeconds == {15, 59}

\* Millisecond values the wall clock is sampled at: outside the creep
\* window (msUntilTick 1000 and 151), on its edge (150), inside (75, 1).
SampleMs == {0, 849, 850, 925, 999}

\* Hour and minute the wall clock shows in the runs that study the second
\* hand and the lifecycle.
SampleHours == {10}
SampleMinutes == {9}

\* How far the sampled second may be from the last observed one (mod 60):
\* the same second, the next one, a forward jump, a backward jump.
SecondSteps == {0, 1, 2, 59}

\* Two clocks side by side: callbacks up to this timestamp on each clock's
\* time line, one rejected and one accepted interval.
MaxTimestampPair == 50
PairDeltas == {5, 25}

\* The hour and minute hands over several frames: the minutes the wall
\* clock may show, the second sampled again or the next one, and the
\* milliseconds of the sample.
HandMinutes == {9, 10}
HandSteps == {0, 1}
HandMs == {0, 500}

\* The throttle on its own: every gap from 0 ms (the timestamp of the
\* callback before) up to this one, callbacks up to this timestamp.
GateMaxDelta == 22
GateMaxTimestamp == 66

\* The page side: messages posted to the worker are recorded up to this
\* many, calls of AnalogueClock.destroy are counted up to this many.
MaxPosted == 7
MaxDestroyCalls == 3

\* A scheduler that never stops: strictly positive gaps between callbacks,
\* and the window in which the timestamps are held (see MoveOrigin).
LiveDeltas == {5, 25}
LiveWindow == 60

----------------------------------------------------------------------------
(* Program constants *)

maxRateHz == 50
SentinelTimestamp == -1
SecondsPerMinute == 60

creepDurationMs == 150
AngleScale == creepDurationMs
creepAngleDegrees == 2 * AngleScale
overshootDegrees == 2 * AngleScale
recoilDegrees == -((3 * AngleScale) \div 2)

Phases == {"SETTLED", "CREEPING", "OVERSHOOT", "RECOIL"}
Seconds == 0 .. (SecondsPerMinute - 1)
Minutes == 0 .. 59
Hours == 0 .. 23

----------------------------------------------------------------------------
VARIABLES
  isRunning,                   \* this.isRunning; clockIsRunning of part_000
  hasAnimationFrameId,         \* this.animationFrameId is not null
  framePending,                \* a requestAnimationFrame callback is registered
  pendingCallbacks,            \* how many such callbacks are registered
  lastTimestamp,               \* this.lastTimestamp
  lastRateHz,                  \* this.lastRateHz
  hasScene,                    \* this.scene and this.camera are not null
  sceneReady,                  \* this.renderer is not null
  initPc,                      \* position of the async init()
  closing,                     \* self.close() was called
  clockMs,                     \* timestamp of the latest scheduler callback
  lastSystemSecond,            \* persistent state of animationLoop (part_000)
  secondHandAnimationPhase,
  targetSecondBaseAngle,
  currentSecondHandVisualAngle,
  currentSeconds,              \* the latest sample of the wall clock
  currentMilliseconds,
  newSecondDetected,           \* newSecondDetected of the latest accepted frame
  frame,                       \* what the latest step was
  rendered,                    \* the latest step called renderer.render
  framesSinceTick,             \* accepted frames since the latest tick event
  previousPhase,               \* phase before the latest accepted frame
  sampleRepeated,              \* the latest accepted frame sampled the same
                               \* second and millisecond as the one before
  currentHours,                \* the latest sample of the wall clock
  currentMinutes,
  hourAngle,                   \* hour and minute hand angles of the latest
  minuteAngle,                 \* accepted frame
  drawn,                       \* the angles of the latest drawHand calls
  heldBack,                    \* the throttle of animationLoop (part_000)
                               \* has held a callback back
  active,                      \* which clock instance the variables above
                               \* belong to
  other,                       \* the state of the other clock instance
  page                         \* the AnalogueClock object of the page

gateVars == <<lastTimestamp, lastRateHz>>
handVars == <<lastSystemSecond, secondHandAnimationPhase,
              targetSecondBaseAngle, currentSecondHandVisualAngle>>
sampleVars == <<currentSeconds, currentMilliseconds, newSecondDetected,
                framesSinceTick, previousPhase, sampleRepeated,
                currentHours, currentMinutes, hourAngle, minuteAngle,
                drawn>>
lifeVars == <<isRunning, hasAnimationFrameId, framePending,
              pendingCallbacks, hasScene, sceneReady, initPc, closing>>
vars == <<isRunning, hasAnimationFrameId, framePending, pendingCallbacks,
          lastTimestamp,
          lastRateHz, hasScene, sceneReady, initPc, closing, clockMs,
          lastSystemSecond,
          secondHandAnimationPhase, targetSecondBaseAngle,
          currentSecondHandVisualAngle, currentSeconds, currentMilliseconds,
          newSecondDetected, frame, rendered, framesSinceTick,
          previousPhase, sampleRepeated, currentHours, currentMinutes,
          hourAngle, minuteAngle, drawn, heldBack, active, other, page>>

----------------------------------------------------------------------------
(* Frame throttle of _animationLoop *)

\* Math.round(1000 / delta) for delta > 0: the nearest integer, halves up.
ActualRateHz(delta) == (2000 + delta) \div (2 * delta)

\* Variant of FrameAccepted: a frame is held back only when the gap is
\* below 1000 / 60 ms.
FrameAcceptedSixtyHz(timestamp, last) ==
  60 * (timestamp - last) >= 1000

\* The test "actualRateHz < this.maxRateHz".  1000 / 0 is Infinity, which is
\* not below any rate.
FrameAccepted(timestamp, last) ==
  LET delta == timestamp - last
  IN  IF delta > 0 THEN ActualRateHz(delta) < maxRateHz ELSE delta < 0

----------------------------------------------------------------------------
(* Smooth hand angles of the callback logic *)

\* Variant of HourAngle: the hour is not reduced modulo 12.
HourAngleNoWrap(hours, minutes) ==
  ((hours * 60 + minutes) * 360 * AngleScale) \div (12 * 60)

\* hourAngle = ((currentHours % 12 + currentMinutes / 60) / 12) * 360
HourAngle(hours, minutes) ==
  (((hours % 12) * 60 + minutes) * 360 * AngleScale) \div (12 * 60)

\* minuteAngle = ((currentMinutes + currentSeconds / 60) / 60) * 360
MinuteAngle(minutes, seconds) ==
  ((minutes * 60 + seconds) * 360 * AngleScale) \div (60 * 60)

----------------------------------------------------------------------------
(* Second-hand physics of the callback logic.  A hand state is a record    *)
(* [second, phase, target, visual].                                        *)

BaseAngle(seconds) == (seconds * 360 * AngleScale) \div SecondsPerMinute

HandState(second, phase, target, visual) ==
  [second |-> second, phase |-> phase, target |-> target, visual |-> visual]

\* Variant of TickEvent: the hand steps to the second after the last
\* observed one, not to the sampled second.
TickEventStepsOne(st, seconds) ==
  HandState((st.second + 1) % SecondsPerMinute, "OVERSHOOT",
            BaseAngle((st.second + 1) % SecondsPerMinute),
            BaseAngle((st.second + 1) % SecondsPerMinute)
              + overshootDegrees)

\* Variant of TickEvent: the overshoot is added to the angle the hand is
\* shown at, not to the new base angle.
TickEventFromVisual(st, seconds) ==
  HandState(seconds, "OVERSHOOT", BaseAngle(seconds),
            st.visual + overshootDegrees)

\* IF newSecondDetected THEN ... : the tick event.
TickEvent(st, seconds) ==
  HandState(seconds, "OVERSHOOT", BaseAngle(seconds),
            BaseAngle(seconds) + overshootDegrees)

\* Variant of OvershootCase: the recoil is applied to the overshot angle.
OvershootCaseFromVisual(st) ==
  HandState(st.second, "RECOIL", st.target, st.visual + recoilDegrees)

\* Variant of OvershootCase: the hand settles at once, the recoil is skipped.
OvershootCaseSkipsRecoil(st) ==
  HandState(st.second, "SETTLED", st.target, st.target)

\* Variant of OvershootCase: the hand recoils by the overshoot amount.
OvershootCaseByOvershoot(st) ==
  HandState(st.second, "RECOIL", st.target, st.target - overshootDegrees)

\* CASE 'OVERSHOOT'
OvershootCase(st) ==
  HandState(st.second, "RECOIL", st.target, st.target + recoilDegrees)

\* Variant of RecoilCase: the phase changes, the angle is left as it was.
RecoilCaseKeepsAngle(st) ==
  HandState(st.second, "SETTLED", st.target, st.visual)

\* CASE 'RECOIL'
RecoilCase(st) ==
  HandState(st.second, "SETTLED", st.target, st.target)

\* Math.max(0, Math.min(1, creepProgress)), on the numerator of the progress.
ClampProgress(timeIntoCreepMs) ==
  IF timeIntoCreepMs < 0 THEN 0
  ELSE IF timeIntoCreepMs > creepDurationMs THEN creepDurationMs
  ELSE timeIntoCreepMs

\* Variant of CreepingCase: the progress is taken from the time left, so
\* the hand falls back during the window.
CreepingCaseReversed(st, milliseconds) ==
  LET millisecondsUntilNextTick == 1000 - milliseconds
      additionalCreepAngle ==
        (ClampProgress(millisecondsUntilNextTick) * creepAngleDegrees)
          \div creepDurationMs
  IN  IF millisecondsUntilNextTick > creepDurationMs
         \/ millisecondsUntilNextTick < 0
      THEN HandState(st.second, "SETTLED", st.target, st.target)
      ELSE HandState(st.second, "CREEPING", st.target,
                     st.target + additionalCreepAngle)

\* Variant of CreepingCase: the window is not checked again, the clamp alone
\* keeps the progress in range.
CreepingCaseNoWindowCheck(st, milliseconds) ==
  LET millisecondsUntilNextTick == 1000 - milliseconds
      timeIntoCreepMs == creepDurationMs - millisecondsUntilNextTick
      additionalCreepAngle ==
        (ClampProgress(timeIntoCreepMs) * creepAngleDegrees)
          \div creepDurationMs
  IN  HandState(st.second, "CREEPING", st.target,
                st.target + additionalCreepAngle)

\* Variant of CreepingCase: the creep is added to the angle the hand is
\* shown at, not to the base angle.
CreepingCaseAccumulates(st, milliseconds) ==
  LET millisecondsUntilNextTick == 1000 - milliseconds
      timeIntoCreepMs == creepDurationMs - millisecondsUntilNextTick
      additionalCreepAngle ==
        (ClampProgress(timeIntoCreepMs) * creepAngleDegrees)
          \div creepDurationMs
  IN  IF millisecondsUntilNextTick > creepDurationMs
         \/ millisecondsUntilNextTick < 0
      THEN HandState(st.second, "SETTLED", st.target, st.target)
      ELSE HandState(st.second, "CREEPING", st.target,
                     st.visual + additionalCreepAngle)

\* CASE 'CREEPING'
CreepingCase(st, milliseconds) ==
  LET millisecondsUntilNextTick == 1000 - milliseconds
      timeIntoCreepMs == creepDurationMs - millisecondsUntilNextTick
      additionalCreepAngle ==
        (ClampProgress(timeIntoCreepMs) * creepAngleDegrees)
          \div creepDurationMs
  IN  IF millisecondsUntilNextTick > creepDurationMs
         \/ millisecondsUntilNextTick < 0
      THEN HandState(st.second, "SETTLED", st.target, st.target)
      ELSE HandState(st.second, "CREEPING", st.target,
                     st.target + additionalCreepAngle)

\* Variant of SettledCase: outside the creep window the angle is set as in
\* CASE 'OVERSHOOT', base plus recoil.
SettledCaseCopiedRecoil(st, milliseconds) ==
  LET millisecondsUntilNextTick == 1000 - milliseconds
  IN  IF millisecondsUntilNextTick <= creepDurationMs
      THEN CreepingCase(HandState(st.second, "CREEPING", st.target,
                                  st.visual), milliseconds)
      ELSE HandState(st.second, "SETTLED", st.target,
                     st.target + recoilDegrees)

\* Variant of SettledCase: no fall-through, the first creep angle is left
\* to the next frame.
SettledCaseDeferred(st, milliseconds) ==
  LET millisecondsUntilNextTick == 1000 - milliseconds
  IN  IF millisecondsUntilNextTick <= creepDurationMs
      THEN HandState(st.second, "CREEPING", st.target, st.visual)
      ELSE HandState(st.second, "SETTLED", st.target, st.target)

\* CASE 'SETTLED', with its fall-through into CASE 'CREEPING'
SettledCase(st, milliseconds) ==
  LET millisecondsUntilNextTick == 1000 - milliseconds
  IN  IF millisecondsUntilNextTick <= creepDurationMs
      THEN CreepingCase(HandState(st.second, "CREEPING", st.target,
                                  st.visual), milliseconds)
      ELSE HandState(st.second, "SETTLED", st.target, st.target)

\* Variant of DefaultCase: the angles are reset, the phase is left as found.
DefaultCaseKeepsPhase(st, seconds) ==
  HandState(st.second, st.phase, BaseAngle(seconds), BaseAngle(seconds))

\* DEFAULT
DefaultCase(st, seconds) ==
  HandState(st.second, "SETTLED", BaseAngle(seconds), BaseAngle(seconds))

\* The second hand physics logic of one frame.
Advance(st, seconds, milliseconds) ==
  IF seconds # st.second
  THEN TickEvent(st, seconds)
  ELSE CASE st.phase = "OVERSHOOT" -> OvershootCase(st)
         [] st.phase = "RECOIL"    -> RecoilCase(st)
         [] st.phase = "SETTLED"   -> SettledCase(st, milliseconds)
         [] st.phase = "CREEPING"  -> CreepingCase(st, milliseconds)
         [] OTHER                  -> DefaultCase(st, seconds)

CurrentHand ==
  HandState(lastSystemSecond, secondHandAnimationPhase,
            targetSecondBaseAngle, currentSecondHandVisualAngle)

----------------------------------------------------------------------------
(* State after "new AnalogueClockRenderer()" *)

\* The state of a renderer after "new AnalogueClockRenderer()", as a record.
Constructed ==
  [isRunning |-> FALSE,
   hasAnimationFrameId |-> FALSE,
   framePending |-> FALSE,
   pendingCallbacks |-> 0,
   lastTimestamp |-> SentinelTimestamp,
   lastRateHz |-> maxRateHz,
   hasScene |-> FALSE,
   sceneReady |-> FALSE,
   initPc |-> "idle",
   closing |-> FALSE,
   clockMs |-> 0,
   lastSystemSecond |-> -1,
   secondHandAnimationPhase |-> "SETTLED",
   targetSecondBaseAngle |-> 0,
   currentSecondHandVisualAngle |-> 0,
   currentSeconds |-> -1,
   currentMilliseconds |-> 0,
   newSecondDetected |-> FALSE,
   frame |-> "none",
   rendered |-> FALSE,
   framesSinceTick |-> MaxFramesSinceTick,
   previousPhase |-> "SETTLED",
   sampleRepeated |-> FALSE,
   currentHours |-> -1,
   currentMinutes |-> -1,
   hourAngle |-> 0,
   minuteAngle |-> 0,
   drawn |-> [hourAngle |-> 0, minuteAngle |-> 0, secondAngle |-> 0],
   heldBack |-> FALSE]

\* The state of the active clock instance, as a record.
ThisInstance ==
  [isRunning |-> isRunning,
   hasAnimationFrameId |-> hasAnimationFrameId,
   framePending |-> framePending,
   pendingCallbacks |-> pendingCallbacks,
   lastTimestamp |-> lastTimestamp,
   lastRateHz |-> lastRateHz,
   hasScene |-> hasScene,
   sceneReady |-> sceneReady,
   initPc |-> initPc,
   closing |-> closing,
   clockMs |-> clockMs,
   lastSystemSecond |-> lastSystemSecond,
   secondHandAnimationPhase |-> secondHandAnimationPhase,
   targetSecondBaseAngle |-> targetSecondBaseAngle,
   currentSecondHandVisualAngle |-> currentSecondHandVisualAngle,
   currentSeconds |-> currentSeconds,
   currentMilliseconds |-> currentMilliseconds,
   newSecondDetected |-> newSecondDetected,
   frame |-> frame,
   rendered |-> rendered,
   framesSinceTick |-> framesSinceTick,
   previousPhase |-> previousPhase,
   sampleRepeated |-> sampleRepeated,
   currentHours |-> currentHours,
   currentMinutes |-> currentMinutes,
   hourAngle |-> hourAngle,
   minuteAngle |-> minuteAngle,
   drawn |-> drawn,
   heldBack |-> heldBack]

\* The page before "new AnalogueClock(targetElement, options)": no worker,
\* no resize observer, no logo being loaded, nothing posted.
NoPage ==
  [pc |-> "new", worker |-> FALSE, workerCreated |-> FALSE,
   observer |-> FALSE, logoPending |-> FALSE, destroyCalls |-> 0,
   posted |-> <<>>]

Init ==
  /\ isRunning = Constructed.isRunning
  /\ hasAnimationFrameId = Constructed.hasAnimationFrameId
  /\ framePending = Constructed.framePending
  /\ pendingCallbacks = Constructed.pendingCallbacks
  /\ lastTimestamp = Constructed.lastTimestamp
  /\ lastRateHz = Constructed.lastRateHz
  /\ hasScene = Constructed.hasScene
  /\ sceneReady = Constructed.sceneReady
  /\ initPc = Constructed.initPc
  /\ closing = Constructed.closing
  /\ clockMs = Constructed.clockMs
  /\ lastSystemSecond = Constructed.lastSystemSecond
  /\ secondHandAnimationPhase = Constructed.secondHandAnimationPhase
  /\ targetSecondBaseAngle = Constructed.targetSecondBaseAngle
  /\ currentSecondHandVisualAngle = Constructed.currentSecondHandVisualAngle
  /\ currentSeconds = Constructed.currentSeconds
  /\ currentMilliseconds = Constructed.currentMilliseconds
  /\ newSecondDetected = Constructed.newSecondDetected
  /\ frame = Constructed.frame
  /\ rendered = Constructed.rendered
  /\ framesSinceTick = Constructed.framesSinceTick
  /\ previousPhase = Constructed.previousPhase
  /\ sampleRepeated = Constructed.sampleRepeated
  /\ currentHours = Constructed.currentHours
  /\ currentMinutes = Constructed.currentMinutes
  /\ hourAngle = Constructed.hourAngle
  /\ minuteAngle = Constructed.minuteAngle
  /\ drawn = Constructed.drawn
  /\ heldBack = Constructed.heldBack
  /\ active = 1
  /\ other = Constructed
  /\ page = NoPage

----------------------------------------------------------------------------
(* The worker: AnalogueClockRenderer and self.onmessage *)

\* Variant of InitBegin: "if (this.isRunning) return" is left out, a second
\* 'init' message sets the renderer up again.
InitBeginRestarts(webgl) ==
  /\ ~closing
  /\ isRunning' = TRUE
  /\ hasScene' = TRUE
  /\ sceneReady' = webgl
  /\ initPc' = IF webgl THEN "awaitFont" ELSE "failed"
  /\ frame' = "init"
  /\ rendered' = FALSE
  /\ UNCHANGED <<hasAnimationFrameId, framePending, pendingCallbacks,
                 gateVars, closing, clockMs, handVars, sampleVars, active,
                 other>>
  /\ UNCHANGED <<heldBack, page>>

\* The 'init' message: init() up to "await this._loadFont()".  A renderer
\* that is running returns at once.  Otherwise isRunning is set, the scene
\* and the camera are created, and "new THREE.WebGLRenderer" either returns
\* (webgl) or throws: then this.renderer stays null, init is rejected and
\* the font load is never started.  init reads no clock.
InitBegin(webgl) ==
  /\ ~closing
  /\ IF isRunning
     THEN UNCHANGED <<isRunning, hasScene, sceneReady, initPc>>
     ELSE /\ isRunning' = TRUE
          /\ hasScene' = TRUE
          /\ sceneReady' = webgl
          /\ initPc' = IF webgl THEN "awaitFont" ELSE "failed"
  /\ frame' = "init"
  /\ rendered' = FALSE
  /\ UNCHANGED <<hasAnimationFrameId, framePending, pendingCallbacks,
                 gateVars, closing, clockMs, handVars, sampleVars, active,
                 other>>
  /\ UNCHANGED <<heldBack, page>>

\* Variant of InitResume: the scene is built and the loop is requested
\* whether or not the renderer has been torn down in the meantime.
InitResumeRegardless ==
  /\ initPc = "awaitFont"
  /\ initPc' = "done"
  /\ hasAnimationFrameId' = TRUE
  /\ framePending' = TRUE
  /\ pendingCallbacks' = pendingCallbacks + 1
  /\ frame' = "init"
  /\ rendered' = FALSE
  /\ UNCHANGED <<isRunning, hasScene, sceneReady, closing, gateVars,
                 clockMs, handVars, sampleVars, active, other>>
  /\ UNCHANGED <<heldBack, page>>

\* init() after the font has loaded: builds the scene and starts the loop.
\* With the scene already torn down, _createPin throws on this.scene.add
\* and the loop is never requested.  The continuation is a promise reaction
\* and not a message; whether a worker that is closing still runs it is
\* left open, so it may run after 'destroy'.
InitResume ==
  /\ initPc = "awaitFont"
  /\ IF hasScene
     THEN /\ initPc' = "done"
          /\ hasAnimationFrameId' = TRUE
          /\ framePending' = TRUE
          /\ pendingCallbacks' = pendingCallbacks + 1
     ELSE /\ initPc' = "failed"
          /\ UNCHANGED <<hasAnimationFrameId, framePending,
                         pendingCallbacks>>
  /\ frame' = "init"
  /\ rendered' = FALSE
  /\ UNCHANGED <<isRunning, hasScene, sceneReady, closing, gateVars,
                 clockMs, handVars, sampleVars, active, other>>
  /\ UNCHANGED <<heldBack, page>>

\* _animationLoop when the renderer is not running: "if (!this.isRunning)
\* return", the callback is consumed and not requested again.
StoppedCallback ==
  /\ framePending' = FALSE
  /\ pendingCallbacks' = pendingCallbacks - 1
  /\ frame' = "stopped"
  /\ rendered' = FALSE
  /\ UNCHANGED <<hasAnimationFrameId, gateVars, handVars, sampleVars,
                 other>>

\* Variant of AcceptFrame: the throttle timestamp is one value shared by
\* every renderer instead of a field of the instance.
AcceptFrameShared(timestamp) ==
  /\ lastRateHz' = ActualRateHz(timestamp - lastTimestamp)
  /\ lastTimestamp' = timestamp
  /\ frame' = "accepted"
  /\ rendered' = sceneReady
  /\ other' = [other EXCEPT !.lastTimestamp = timestamp]
  /\ UNCHANGED <<handVars, sampleVars>>

\* _animationLoop on a frame the throttle lets through: the rate and the
\* timestamp are recorded and the scene is rendered if there is a renderer.
\* The animation step is "TODO: animate the clock hands": no clock is read
\* and no hand is moved.
AcceptFrame(timestamp) ==
  /\ lastRateHz' = ActualRateHz(timestamp - lastTimestamp)
  /\ lastTimestamp' = timestamp
  /\ frame' = "accepted"
  /\ rendered' = sceneReady
  /\ UNCHANGED <<handVars, sampleVars, other>>

\* Variant of RejectFrame: the timestamp is recorded on every callback.
RejectFrameStamped(timestamp) ==
  /\ frame' = "rejected"
  /\ rendered' = FALSE
  /\ lastTimestamp' = timestamp
  /\ UNCHANGED <<lastRateHz, handVars, sampleVars, other>>

\* _animationLoop on a frame the throttle holds back: nothing but the
\* request for the next frame.
RejectFrame(timestamp) ==
  /\ frame' = "rejected"
  /\ rendered' = FALSE
  /\ UNCHANGED <<gateVars, handVars, sampleVars, other>>

\* One scheduler callback of the worker: _animationLoop(timestamp).
AnimationLoop(timestamp) ==
  /\ ~closing
  /\ framePending
  /\ clockMs' = timestamp
  /\ IF ~isRunning
     THEN StoppedCallback
     ELSE /\ IF FrameAccepted(timestamp, lastTimestamp)
             THEN AcceptFrame(timestamp)
             ELSE RejectFrame(timestamp)
          /\ framePending' = TRUE
          /\ pendingCallbacks' = pendingCallbacks - 1 + 1
          /\ hasAnimationFrameId' = TRUE
  /\ UNCHANGED <<isRunning, hasScene, sceneReady, initPc, closing, active>>
  /\ UNCHANGED <<heldBack, page>>

\* Variant of Destroy: the pending animation frame is not cancelled.
DestroyNoCancel ==
  /\ ~closing
  /\ IF ~isRunning
     THEN UNCHANGED <<isRunning, hasScene, sceneReady>>
     ELSE /\ isRunning' = FALSE
          /\ hasScene' = FALSE
          /\ sceneReady' = FALSE
  /\ closing' = TRUE
  /\ frame' = "destroy"
  /\ rendered' = FALSE
  /\ UNCHANGED <<hasAnimationFrameId, framePending, pendingCallbacks,
                 initPc, gateVars, clockMs, handVars, sampleVars, active,
                 other>>
  /\ UNCHANGED <<heldBack, page>>

\* The 'destroy' message, handled whatever init has done: renderer.destroy()
\* (which returns at once when the renderer is not running) and
\* self.close().
Destroy ==
  /\ ~closing
  /\ IF ~isRunning
     THEN UNCHANGED <<isRunning, framePending, pendingCallbacks,
                      hasScene, sceneReady>>
     ELSE /\ isRunning' = FALSE
          /\ framePending' = IF hasAnimationFrameId THEN FALSE
                             ELSE framePending
          /\ pendingCallbacks' =
               IF hasAnimationFrameId /\ pendingCallbacks > 0
               THEN pendingCallbacks - 1
               ELSE pendingCallbacks
          /\ hasScene' = FALSE
          /\ sceneReady' = FALSE
  /\ closing' = TRUE
  /\ frame' = "destroy"
  /\ rendered' = FALSE
  /\ UNCHANGED <<hasAnimationFrameId, initPc, gateVars, clockMs, handVars,
                 sampleVars, active, other>>
  /\ UNCHANGED <<heldBack, page>>

\* The scheduler delivers the next callback some milliseconds after the
\* previous one.
Frame ==
  \E d \in Deltas :
    /\ clockMs + d <= MaxTimestamp
    /\ AnimationLoop(clockMs + d)

\* The page posts 'init' once to a worker (AnalogueClock._init).
Start ==
  /\ initPc = "idle"
  /\ \E webgl \in BOOLEAN : InitBegin(webgl)

Next ==
  \/ Start
  \/ InitResume
  \/ Frame
  \/ Destroy

Spec == Init /\ [][Next]_vars

\* The state of a renderer whose init() has run to its end: the scene is
\* built and the loop has been requested.
RendererStarted ==
  /\ isRunning = TRUE
  /\ hasAnimationFrameId = TRUE
  /\ framePending = TRUE
  /\ pendingCallbacks = 1
  /\ lastTimestamp = Constructed.lastTimestamp
  /\ lastRateHz = Constructed.lastRateHz
  /\ hasScene = TRUE
  /\ sceneReady = TRUE
  /\ initPc = "done"
  /\ closing = FALSE
  /\ clockMs = 0
  /\ lastSystemSecond = Constructed.lastSystemSecond
  /\ secondHandAnimationPhase = Constructed.secondHandAnimationPhase
  /\ targetSecondBaseAngle = Constructed.targetSecondBaseAngle
  /\ currentSecondHandVisualAngle = Constructed.currentSecondHandVisualAngle
  /\ currentSeconds = Constructed.currentSeconds
  /\ currentMilliseconds = Constructed.currentMilliseconds
  /\ newSecondDetected = Constructed.newSecondDetected
  /\ frame = "init"
  /\ rendered = FALSE
  /\ framesSinceTick = Constructed.framesSinceTick
  /\ previousPhase = Constructed.previousPhase
  /\ sampleRepeated = Constructed.sampleRepeated
  /\ currentHours = Constructed.currentHours
  /\ currentMinutes = Constructed.currentMinutes
  /\ hourAngle = Constructed.hourAngle
  /\ minuteAngle = Constructed.minuteAngle
  /\ drawn = Constructed.drawn
  /\ heldBack = Constructed.heldBack
  /\ active = 1
  /\ other = Constructed
  /\ page = NoPage

----------------------------------------------------------------------------
(* The callback logic of the technical specification (part_000, section 6) *)

\* What the second "new Date().getSeconds()" of initializeClock may return
\* when the first returned seconds: the same second, or the next one when
\* the second changes between the two reads.
SecondReads(seconds) == {seconds, (seconds + 1) % SecondsPerMinute}

\* initializeClock: the persistent state is set from the wall clock, which
\* is read twice: lastSystemSecond from the first read (seconds), the base
\* angle from the second read (secondsAgain); the loop is requested.
initializeClock(seconds, secondsAgain) ==
  /\ lastTimestamp' = SentinelTimestamp
  /\ lastSystemSecond' = (seconds + 59) % SecondsPerMinute
  /\ secondHandAnimationPhase' = "SETTLED"
  /\ targetSecondBaseAngle' = BaseAngle(secondsAgain)
  /\ currentSecondHandVisualAngle' = BaseAngle(secondsAgain)
  /\ isRunning' = TRUE
  /\ framePending' = TRUE
  /\ pendingCallbacks' = pendingCallbacks + 1
  /\ frame' = "init"
  /\ rendered' = FALSE
  /\ heldBack' = FALSE
  /\ UNCHANGED <<hasAnimationFrameId, lastRateHz, hasScene, sceneReady,
                 initPc, closing, clockMs, sampleVars, active, other>>
  /\ UNCHANGED page

\* Variant of SmoothHandAngles: the angles are computed again only when the
\* sampled second differs from the last observed one.
SmoothHandAnglesOnTick(hours, minutes, seconds) ==
  IF seconds # lastSystemSecond
  THEN [hourAngle |-> HourAngle(hours, minutes),
        minuteAngle |-> MinuteAngle(minutes, seconds)]
  ELSE [hourAngle |-> hourAngle, minuteAngle |-> minuteAngle]

\* "CALCULATE SMOOTH HAND ANGLES": hourAngle and minuteAngle of a frame.
SmoothHandAngles(hours, minutes, seconds) ==
  [hourAngle |-> HourAngle(hours, minutes),
   minuteAngle |-> MinuteAngle(minutes, seconds)]

\* "RENDERING": the three drawHand calls, after the physics step.
DrawHands(angles, hand) ==
  [hourAngle |-> angles.hourAngle,
   minuteAngle |-> angles.minuteAngle,
   secondAngle |-> hand.visual]

\* animationLoop on a callback its throttle holds back: the next frame is
\* requested and the function returns.
ThrottledFrame ==
  /\ frame' = "rejected"
  /\ rendered' = FALSE
  /\ framePending' = TRUE
  /\ pendingCallbacks' = pendingCallbacks - 1 + 1
  /\ heldBack' = TRUE
  /\ UNCHANGED <<handVars, sampleVars>>

\* animationLoop past its throttle, with the wall clock at
\* hours:minutes:seconds.milliseconds: "GET CURRENT TIME", the smooth hand
\* angles, the second-hand physics, the rendering, and the request for the
\* next frame if clockIsRunning.
ProcessFrame(hours, minutes, seconds, milliseconds) ==
  LET next == Advance(CurrentHand, seconds, milliseconds)
      tick == seconds # lastSystemSecond
      angles == SmoothHandAngles(hours, minutes, seconds)
  IN  /\ currentHours' = hours
      /\ currentMinutes' = minutes
      /\ currentSeconds' = seconds
      /\ currentMilliseconds' = milliseconds
      /\ hourAngle' = angles.hourAngle
      /\ minuteAngle' = angles.minuteAngle
      /\ newSecondDetected' = tick
      /\ lastSystemSecond' = next.second
      /\ secondHandAnimationPhase' = next.phase
      /\ targetSecondBaseAngle' = next.target
      /\ currentSecondHandVisualAngle' = next.visual
      /\ drawn' = DrawHands(angles, next)
      /\ sampleRepeated' = (/\ seconds = currentSeconds
                            /\ milliseconds = currentMilliseconds)
      /\ framesSinceTick' =
           IF tick THEN 0
           ELSE IF framesSinceTick < MaxFramesSinceTick
                THEN framesSinceTick + 1
                ELSE MaxFramesSinceTick
      /\ previousPhase' = secondHandAnimationPhase
      /\ frame' = "accepted"
      /\ rendered' = TRUE
      /\ framePending' = isRunning
      /\ pendingCallbacks' = IF isRunning THEN pendingCallbacks - 1 + 1
                             ELSE pendingCallbacks - 1
      /\ heldBack' = heldBack

\* One scheduler callback of the callback logic: animationLoop(timestamp).
\* The throttle compares the gap to this.lastTimestamp with 1000 / 60 ms;
\* the pseudocode assigns lastTimestamp nowhere but in initializeClock.
animationLoop(timestamp, hours, minutes, seconds, milliseconds) ==
  /\ framePending
  /\ clockMs' = timestamp
  /\ IF 60 * (timestamp - lastTimestamp) < 1000
     THEN ThrottledFrame
     ELSE ProcessFrame(hours, minutes, seconds, milliseconds)
  /\ UNCHANGED <<isRunning, hasAnimationFrameId, gateVars, hasScene,
                 sceneReady, initPc, closing, active, other>>
  /\ UNCHANGED page

\* The clock is started once, at any of the start seconds.
ClockStart ==
  /\ ~isRunning
  /\ \E s \in StartSeconds :
       \E again \in SecondReads(s) : initializeClock(s, again)

\* The scheduler delivers the next callback some milliseconds after the
\* previous one; the wall clock shows any millisecond and a second that is
\* the last observed one or differs from it.
ClockFrame ==
  \E d \in Deltas, h \in SampleHours, m \in SampleMinutes,
     step \in SecondSteps, ms \in SampleMs :
    /\ clockMs + d <= MaxTimestamp
    /\ animationLoop(clockMs + d, h, m,
                     (lastSystemSecond + step) % SecondsPerMinute, ms)

NextClock ==
  \/ ClockStart
  \/ ClockFrame

SpecClock == Init /\ [][NextClock]_vars

----------------------------------------------------------------------------
(* The phase machine on its own: the clock has been started at any second, *)
(* the scheduler is steady (every frame passes the throttle), and the wall *)
(* clock may show any second at any sampled millisecond on every frame.    *)

\* The state after initializeClock whose two reads of the wall clock gave
\* the seconds s and again, with the given value in the phase field.
Started(s, again, phase) ==
  /\ isRunning = TRUE
  /\ hasAnimationFrameId = Constructed.hasAnimationFrameId
  /\ framePending = TRUE
  /\ pendingCallbacks = 1
  /\ lastTimestamp = SentinelTimestamp
  /\ lastRateHz = Constructed.lastRateHz
  /\ hasScene = Constructed.hasScene
  /\ sceneReady = Constructed.sceneReady
  /\ initPc = Constructed.initPc
  /\ closing = FALSE
  /\ clockMs = 0
  /\ lastSystemSecond = (s + 59) % SecondsPerMinute
  /\ secondHandAnimationPhase = phase
  /\ targetSecondBaseAngle = BaseAngle(again)
  /\ currentSecondHandVisualAngle = BaseAngle(again)
  /\ currentSeconds = -1
  /\ currentMilliseconds = 0
  /\ newSecondDetected = FALSE
  /\ frame = "init"
  /\ rendered = FALSE
  /\ framesSinceTick = MaxFramesSinceTick
  /\ previousPhase = "SETTLED"
  /\ sampleRepeated = FALSE
  /\ currentHours = -1
  /\ currentMinutes = -1
  /\ hourAngle = 0
  /\ minuteAngle = 0
  /\ drawn = Constructed.drawn
  /\ heldBack = Constructed.heldBack
  /\ active = 1
  /\ other = Constructed
  /\ page = NoPage

InitPhase ==
  \E s \in Seconds :
    \E again \in SecondReads(s) : Started(s, again, "SETTLED")

SteadyFrame ==
  /\ clockMs + SteadyDelta <= MaxTimestamp
  /\ \E h \in SampleHours, m \in SampleMinutes, s \in Seconds,
        ms \in SampleMs :
       animationLoop(clockMs + SteadyDelta, h, m, s, ms)

NextPhase == SteadyFrame

SpecPhase == InitPhase /\ [][NextPhase]_vars

----------------------------------------------------------------------------
(* The smooth hand angles on their own: the clock has been started, and    *)
(* its first frame finds the wall clock at any hour, minute and second.    *)

InitAngles ==
  \E s \in StartSeconds :
    \E again \in SecondReads(s) : Started(s, again, "SETTLED")

FirstFrame ==
  /\ currentSeconds = -1
  /\ \E h \in Hours, m \in Minutes, s \in Seconds :
       animationLoop(clockMs + SteadyDelta, h, m, s, 0)

NextAngles == FirstFrame

SpecAngles == InitAngles /\ [][NextAngles]_vars

----------------------------------------------------------------------------
(* The phase machine applied to any value of the phase field: the four     *)
(* phases and a string that is none of them, which only the DEFAULT branch *)
(* of the switch handles.                                                  *)

UnrecognizedPhase == "UNRECOGNIZED"

InitDefensive ==
  \E s \in StartSeconds, phase \in Phases \cup {UnrecognizedPhase} :
    \E again \in SecondReads(s) : Started(s, again, phase)

NextDefensive == SteadyFrame

SpecDefensive == InitDefensive /\ [][NextDefensive]_vars

----------------------------------------------------------------------------
(* Two clocks on one page.  Each AnalogueClock creates its own worker, and *)
(* each worker its own renderer; the variables hold the state of the clock *)
(* the next message or callback is for, "other" holds the second clock.    *)

\* The next message or callback is for the second clock: the two states
\* change places, neither changes.
SwitchInstance ==
  /\ isRunning' = other.isRunning
  /\ hasAnimationFrameId' = other.hasAnimationFrameId
  /\ framePending' = other.framePending
  /\ pendingCallbacks' = other.pendingCallbacks
  /\ lastTimestamp' = other.lastTimestamp
  /\ lastRateHz' = other.lastRateHz
  /\ hasScene' = other.hasScene
  /\ sceneReady' = other.sceneReady
  /\ initPc' = other.initPc
  /\ closing' = other.closing
  /\ clockMs' = other.clockMs
  /\ lastSystemSecond' = other.lastSystemSecond
  /\ secondHandAnimationPhase' = other.secondHandAnimationPhase
  /\ targetSecondBaseAngle' = other.targetSecondBaseAngle
  /\ currentSecondHandVisualAngle' = other.currentSecondHandVisualAngle
  /\ currentSeconds' = other.currentSeconds
  /\ currentMilliseconds' = other.currentMilliseconds
  /\ newSecondDetected' = other.newSecondDetected
  /\ frame' = other.frame
  /\ rendered' = other.rendered
  /\ framesSinceTick' = other.framesSinceTick
  /\ previousPhase' = other.previousPhase
  /\ sampleRepeated' = other.sampleRepeated
  /\ currentHours' = other.currentHours
  /\ currentMinutes' = other.currentMinutes
  /\ hourAngle' = other.hourAngle
  /\ minuteAngle' = other.minuteAngle
  /\ drawn' = other.drawn
  /\ heldBack' = other.heldBack
  /\ other' = ThisInstance
  /\ active' = 3 - active
  /\ UNCHANGED page

\* A scheduler callback of the clock the variables hold, on its own time
\* line.
PairFrame ==
  \E d \in PairDeltas :
    /\ clockMs + d <= MaxTimestampPair
    /\ AnimationLoop(clockMs + d)

\* An 'init' message, at any time.
PairStart == \E webgl \in BOOLEAN : InitBegin(webgl)

NextTwo ==
  \/ PairStart
  \/ InitResume
  \/ PairFrame
  \/ Destroy
  \/ SwitchInstance

SpecTwo == Init /\ [][NextTwo]_vars

----------------------------------------------------------------------------
(* The lifecycle of one renderer under any order of messages: 'init' may   *)
(* arrive again at any time before 'destroy'.                              *)

NextLife ==
  \/ PairStart
  \/ InitResume
  \/ Frame
  \/ Destroy

SpecLife == Init /\ [][NextLife]_vars

----------------------------------------------------------------------------
(* The hour and minute hands over several frames of a steady scheduler:    *)
(* the wall clock may show a different minute on any frame, also on one    *)
(* that samples the last observed second again (the clock was set, or the  *)
(* frames are a whole minute apart).                                       *)

InitHands ==
  \E s \in StartSeconds :
    \E again \in SecondReads(s) : Started(s, again, "SETTLED")

HandsFrame ==
  /\ clockMs + SteadyDelta <= MaxTimestamp
  /\ \E m \in HandMinutes, step \in HandSteps, ms \in HandMs :
       animationLoop(clockMs + SteadyDelta, 10, m,
                     (lastSystemSecond + step) % SecondsPerMinute, ms)

NextHands == HandsFrame

SpecHands == InitHands /\ [][NextHands]_vars

----------------------------------------------------------------------------
(* The throttle of the worker on its own: a started renderer, callbacks    *)
(* whose timestamps never decrease, at any gap around the period of        *)
(* maxRateHz.                                                              *)

InitGate == RendererStarted

GateFrame ==
  \E d \in 0 .. GateMaxDelta :
    /\ clockMs + d <= GateMaxTimestamp
    /\ AnimationLoop(clockMs + d)

NextGate == GateFrame

SpecGate == InitGate /\ [][NextGate]_vars

----------------------------------------------------------------------------
(* The page side: AnalogueClock of analogue-clock.js, which owns the       *)
(* worker.  page.posted is the sequence of the types of the messages       *)
(* posted to the worker; what the worker does with them is InitBegin,      *)
(* Destroy and the other actions above.                                    *)

rendererVars == <<lifeVars, gateVars, handVars, sampleVars, clockMs, frame,
                  rendered, heldBack, active, other>>

\* How _init may end: it returns; it throws "Worker not supported" before
\* the worker exists; it throws between "new Worker" and the 'init'
\* message (transferControlToOffscreen or postMessage throws); it throws
\* after the 'init' message and before the element is observed ("new
\* ResizeObserver" or observe throws); or it throws after observe
\* ("this.options.logo" when options is null).
InitOutcomes ==
  {"ok", "noWorker", "throwsBeforePost", "throwsBeforeObserve",
   "throwsAfterObserve"}

\* "new AnalogueClock(targetElement, options)": _init, and destroy() from
\* the catch clause when _init throws.
PageConstruct(outcome, logo) ==
  /\ page.pc = "new"
  /\ page' =
       CASE outcome = "ok" ->
              [page EXCEPT !.pc = "built", !.worker = TRUE,
                           !.workerCreated = TRUE, !.observer = TRUE,
                           !.logoPending = logo, !.posted = <<"init">>]
         [] outcome = "noWorker" ->
              [page EXCEPT !.pc = "built", !.destroyCalls = 1]
         [] outcome = "throwsBeforeObserve" ->
              [page EXCEPT !.pc = "built", !.workerCreated = TRUE,
                           !.destroyCalls = 1,
                           !.posted = <<"init", "destroy">>]
         [] outcome = "throwsAfterObserve" ->
              [page EXCEPT !.pc = "built", !.workerCreated = TRUE,
                           !.observer = TRUE, !.destroyCalls = 1,
                           !.posted = <<"init", "destroy">>]
         [] OTHER ->
              [page EXCEPT !.pc = "built", !.workerCreated = TRUE,
                           !.destroyCalls = 1, !.posted = <<"destroy">>]
  /\ UNCHANGED rendererVars

\* _onResize, called by the ResizeObserver; a notification may still be
\* delivered after unobserve.
PageResize ==
  /\ page.observer
  /\ Len(page.posted) < MaxPosted
  /\ page' = IF page.worker
             THEN [page EXCEPT !.posted = Append(@, "resize")]
             ELSE page
  /\ UNCHANGED rendererVars

\* The callback of loader.load in _loadLogo: posts the 'logo' message;
\* with this.worker null, this.worker.postMessage throws and nothing is
\* posted.
PageLogoLoaded ==
  /\ page.logoPending
  /\ page' = IF page.worker
             THEN [page EXCEPT !.logoPending = FALSE,
                               !.posted = Append(@, "logo")]
             ELSE [page EXCEPT !.logoPending = FALSE]
  /\ UNCHANGED rendererVars

\* Variant of PageDestroy: this.worker is not set to null.
PageDestroyKeepsWorker ==
  /\ page.pc = "built"
  /\ page.destroyCalls < MaxDestroyCalls
  /\ page' = IF page.worker
             THEN [page EXCEPT !.destroyCalls = @ + 1,
                               !.posted = Append(@, "destroy")]
             ELSE [page EXCEPT !.destroyCalls = @ + 1]
  /\ UNCHANGED rendererVars

\* AnalogueClock.destroy()
PageDestroy ==
  /\ page.pc = "built"
  /\ page.destroyCalls < MaxDestroyCalls
  /\ page' = IF page.worker
             THEN [page EXCEPT !.destroyCalls = @ + 1, !.worker = FALSE,
                               !.posted = Append(@, "destroy")]
             ELSE [page EXCEPT !.destroyCalls = @ + 1]
  /\ UNCHANGED rendererVars

PageNew == \E outcome \in InitOutcomes, logo \in BOOLEAN :
             PageConstruct(outcome, logo)

NextPage ==
  \/ PageNew
  \/ PageResize
  \/ PageLogoLoaded
  \/ PageDestroy

SpecPage == Init /\ [][NextPage]_vars

----------------------------------------------------------------------------
(* A running renderer under a scheduler that keeps delivering callbacks    *)
(* with strictly increasing timestamps, without end.  _animationLoop reads *)
(* the timestamps only in "timestamp - this.lastTimestamp", so the origin  *)
(* of the time line can be moved without changing any decision; moving it  *)
(* keeps timestamps that grow without bound inside LiveWindow.             *)

LiveFrame ==
  \E d \in LiveDeltas :
    /\ clockMs + d <= LiveWindow
    /\ AnimationLoop(clockMs + d)

\* The origin of the time line is moved to the last accepted timestamp.
MoveOrigin ==
  /\ lastTimestamp > 0
  /\ clockMs + 25 > LiveWindow
  /\ clockMs' = clockMs - lastTimestamp
  /\ lastTimestamp' = 0
  /\ UNCHANGED <<lifeVars, lastRateHz, handVars, sampleVars, frame,
                 rendered, heldBack, active, other, page>>

NextLive ==
  \/ LiveFrame
  \/ MoveOrigin

\* requestAnimationFrame callbacks keep coming while one is registered.
SpecLive ==
  /\ InitGate
  /\ [][NextLive]_vars
  /\ WF_vars(LiveFrame)
  /\ WF_vars(MoveOrigin)

----------------------------------------------------------------------------
TypeOK ==
  /\ isRunning \in BOOLEAN
  /\ framePending \in BOOLEAN
  /\ heldBack \in BOOLEAN
  /\ pendingCallbacks \in 0 .. 1
  /\ lastTimestamp \in {SentinelTimestamp} \cup (0 .. MaxTimestamp)
  /\ secondHandAnimationPhase \in Phases
  /\ lastSystemSecond \in {-1} \cup Seconds
  /\ frame \in {"none", "init", "accepted", "rejected", "stopped", "destroy"}


----------------------------------------------------------------------------
(* Properties *)

\* n degrees in angle units.
Degrees(n) == n * AngleScale

\* animationLoop has processed a frame: the wall clock has been sampled.
FrameProcessed == currentSeconds \in Seconds

\* The offset of the shown angle from the base angle.
VisualOffset == currentSecondHandVisualAngle - targetSecondBaseAngle

\* C1: an accepted frame whose sampled second S differs from
\* lastSystemSecond ends, whatever the phase was, with phase OVERSHOOT,
\* lastSystemSecond = S, the base angle S/60*360 = 6*S degrees and the shown
\* angle 6*S degrees plus the overshoot.
C1_TickOvershoots ==
  [][(frame' = "accepted" /\ currentSeconds' # lastSystemSecond)
       => /\ secondHandAnimationPhase' = "OVERSHOOT"
          /\ lastSystemSecond' = currentSeconds'
          /\ targetSecondBaseAngle' = Degrees(6 * currentSeconds')
          /\ currentSecondHandVisualAngle'
               = Degrees(6 * currentSeconds') + overshootDegrees]_vars

\* A tick to second 59 was detected while the hand was creeping.
C1_Witness ==
  /\ frame = "accepted"
  /\ newSecondDetected
  /\ previousPhase = "CREEPING"
  /\ lastSystemSecond = 59
  /\ secondHandAnimationPhase = "OVERSHOOT"
  /\ currentSecondHandVisualAngle = Degrees(356)

\* C2: when the phase is OVERSHOOT (a tick to second S was detected on the
\* latest accepted frame) and the next accepted frame samples the same
\* second S, that frame ends with phase RECOIL and the shown angle
\* 6*S degrees plus the recoil.
C2_RecoilAfterOvershoot ==
  [][(/\ frame' = "accepted"
      /\ secondHandAnimationPhase = "OVERSHOOT"
      /\ currentSeconds' = lastSystemSecond)
       => /\ secondHandAnimationPhase' = "RECOIL"
          /\ currentSecondHandVisualAngle'
               = Degrees(6 * lastSystemSecond) + recoilDegrees]_vars

\* The frame after a tick sampled the same second.
C2_Witness ==
  /\ frame = "accepted"
  /\ previousPhase = "OVERSHOOT"
  /\ ~newSecondDetected
  /\ framesSinceTick = 1
  /\ secondHandAnimationPhase = "RECOIL"
  /\ VisualOffset = recoilDegrees

\* C3: after the second accepted frame that follows a tick to second S
\* without a new tick, the phase is SETTLED and the shown angle is 6*S
\* degrees exactly.
C3_SettledAfterTwoFrames ==
  (frame = "accepted" /\ framesSinceTick = 2)
    => /\ secondHandAnimationPhase = "SETTLED"
       /\ currentSecondHandVisualAngle = Degrees(6 * lastSystemSecond)

\* The second frame after a tick, sampled inside the creep window.
C3_Witness ==
  /\ frame = "accepted"
  /\ framesSinceTick = 2
  /\ previousPhase = "RECOIL"
  /\ currentMilliseconds = 925
  /\ secondHandAnimationPhase = "SETTLED"

C5_OffsetBounded ==
  FrameProcessed
    => /\ VisualOffset >= (IF recoilDegrees < 0 THEN recoilDegrees ELSE 0)
       /\ VisualOffset <= (IF overshootDegrees > creepAngleDegrees
                           THEN overshootDegrees ELSE creepAngleDegrees)

\* The hand is at the lower end of the range, one frame after a tick.
C5_Witness ==
  /\ FrameProcessed
  /\ VisualOffset = recoilDegrees
  /\ lastSystemSecond = 3
  /\ framesSinceTick = 1

\* C6 as stated: a callback of the running loop at timestamp t is rejected,
\* with lastTimestamp unchanged, exactly when t - lastTimestamp is below
\* 1000/maxRateHz, and is otherwise accepted with lastTimestamp = t.
C6_GateAsStated ==
  [][frame' \in {"accepted", "rejected"}
       => IF (clockMs' - lastTimestamp) * maxRateHz < 1000
          THEN frame' = "rejected" /\ lastTimestamp' = lastTimestamp
          ELSE frame' = "accepted" /\ lastTimestamp' = clockMs']_vars

\* C7 as stated: the first decision of the throttle (lastTimestamp still
\* the sentinel) is an accept.
C7_FirstFrameAsStated ==
  [][(frame' \in {"accepted", "rejected"}
      /\ lastTimestamp = SentinelTimestamp)
       => frame' = "accepted"]_vars

\* C8: a callback the throttle of the worker rejects leaves the throttle
\* state and the second-hand state unchanged and renders nothing; the next
\* frame is requested.
C8_RejectedFrameInert ==
  [][frame' = "rejected"
       => /\ UNCHANGED <<lastTimestamp, secondHandAnimationPhase,
                         lastSystemSecond, targetSecondBaseAngle,
                         currentSecondHandVisualAngle>>
          /\ ~rendered'
          /\ framePending']_vars

\* A callback came 5 ms after one accepted at timestamp 25 and was
\* rejected: the timestamp and the rate (38 Hz) are those of the accepted
\* frame.
C8_Witness ==
  /\ frame = "rejected"
  /\ lastTimestamp = 25
  /\ lastRateHz = 38
  /\ clockMs = lastTimestamp + 5
  /\ ~rendered
  /\ framePending

\* C9: once the renderer is destroyed it is not running and no animation
\* frame is pending, and from then on no step changes the throttle or the
\* second-hand state, renders, or requests a frame.
C9_StoppedForGood ==
  /\ [](closing => (~isRunning /\ ~framePending))
  /\ [][closing => /\ UNCHANGED <<gateVars, handVars, isRunning>>
                   /\ ~rendered'
                   /\ ~framePending']_vars

\* The renderer was destroyed after frames had been accepted.
C9_Witness ==
  /\ closing
  /\ ~isRunning
  /\ lastTimestamp # SentinelTimestamp
  /\ hasAnimationFrameId
  /\ ~framePending

\* The outputs of the end-to-end scenario around second 15, with the angle
\* the tick to second 15 is to show: the tick to 15, the frame after it
\* (88.5 degrees, RECOIL), the next (90 degrees, SETTLED), the creep in the
\* last 150 ms (90 degrees at 850 ms, 91 at 925 ms, 91 + 148/150 at 999 ms),
\* and the tick to second 16 (98 degrees, base 96).
Scenario15(tickAngle) ==
  /\ (frame = "accepted" /\ lastSystemSecond = 15 /\ framesSinceTick = 0)
       => /\ secondHandAnimationPhase = "OVERSHOOT"
          /\ currentSecondHandVisualAngle = tickAngle
  /\ (frame = "accepted" /\ lastSystemSecond = 15 /\ framesSinceTick = 1)
       => /\ secondHandAnimationPhase = "RECOIL"
          /\ 2 * currentSecondHandVisualAngle = Degrees(177)
  /\ (frame = "accepted" /\ lastSystemSecond = 15 /\ framesSinceTick = 2)
       => /\ secondHandAnimationPhase = "SETTLED"
          /\ currentSecondHandVisualAngle = Degrees(90)
  /\ (/\ frame = "accepted"
      /\ lastSystemSecond = 15
      /\ targetSecondBaseAngle = Degrees(90)
      /\ secondHandAnimationPhase = "CREEPING")
       => /\ currentMilliseconds >= 850
          /\ currentSecondHandVisualAngle >= Degrees(90)
          /\ currentSecondHandVisualAngle < Degrees(92)
          /\ 150 * currentSecondHandVisualAngle
               = 150 * Degrees(90)
                   + Degrees(2) * (currentMilliseconds - 850)
  /\ (frame = "accepted" /\ lastSystemSecond = 16 /\ framesSinceTick = 0)
       => /\ secondHandAnimationPhase = "OVERSHOOT"
          /\ targetSecondBaseAngle = Degrees(96)
          /\ currentSecondHandVisualAngle = Degrees(98)

\* C10 as stated: the tick to second 15 shows 98 degrees.
C10_AsStated == Scenario15(Degrees(98))

\* C10 amended: the tick to second 15 shows 92 degrees (base 90 plus the
\* overshoot of 2); the rest of the scenario is as stated.
C10_EndToEnd == Scenario15(Degrees(92))

\* The tick to second 16 came while the hand was creeping, three or more
\* accepted frames after the tick to second 15.
C10_Witness ==
  /\ frame = "accepted"
  /\ lastSystemSecond = 16
  /\ framesSinceTick = 0
  /\ previousPhase = "CREEPING"
  /\ currentSecondHandVisualAngle = Degrees(98)
  /\ clockMs >= 5 * SteadyDelta

\* The latest step was an accepted frame that sampled the same second and
\* millisecond as the accepted frame before it: the phase machine is applied
\* a second time with an identical time.
AppliedAgain ==
  /\ frame = "accepted"
  /\ frame' = "accepted"
  /\ currentSeconds' = currentSeconds
  /\ currentMilliseconds' = currentMilliseconds

\* The machine is at rest for the time it was last applied with: CREEPING,
\* or SETTLED outside the creep window.
AtRest ==
  \/ secondHandAnimationPhase = "CREEPING"
  \/ /\ secondHandAnimationPhase = "SETTLED"
     /\ 1000 - currentMilliseconds > creepDurationMs

\* C11 as stated: applying the phase machine a second time with an
\* identical time leaves the phase and the shown angle as the first
\* application left them.
C11_AsStated ==
  [][AppliedAgain
       => /\ secondHandAnimationPhase' = secondHandAnimationPhase
          /\ currentSecondHandVisualAngle'
               = currentSecondHandVisualAngle]_vars

\* C11 amended: a second application with an identical time leaves the
\* phase and the shown angle unchanged when the first one left the machine
\* at rest (CREEPING, or SETTLED outside the creep window); otherwise it
\* advances the phase once more: OVERSHOOT to RECOIL, RECOIL to SETTLED,
\* SETTLED inside the creep window to CREEPING.
C11_SecondApplication ==
  [][AppliedAgain
       => IF AtRest
          THEN /\ secondHandAnimationPhase' = secondHandAnimationPhase
               /\ currentSecondHandVisualAngle'
                    = currentSecondHandVisualAngle
          ELSE secondHandAnimationPhase'
                 = CASE secondHandAnimationPhase = "OVERSHOOT" -> "RECOIL"
                     [] secondHandAnimationPhase = "RECOIL" -> "SETTLED"
                     [] OTHER -> "CREEPING"]_vars

\* The machine was applied twice with the same time inside the creep window
\* and is creeping at the same angle.
C11_Witness ==
  /\ frame = "accepted"
  /\ sampleRepeated
  /\ previousPhase = "CREEPING"
  /\ secondHandAnimationPhase = "CREEPING"
  /\ currentMilliseconds = 925
  /\ VisualOffset = Degrees(1)

\* The step is an accepted frame that samples the last observed second: no
\* tick is detected.
NonTickFrame ==
  /\ frame' = "accepted"
  /\ currentSeconds' = lastSystemSecond

\* Milliseconds until the next tick at the sample of the step.
MsUntilTickNext == 1000 - currentMilliseconds'

\* The sample of the step lies in the creep window.
InCreepWindowNext ==
  0 < MsUntilTickNext /\ MsUntilTickNext <= creepDurationMs

\* C12: a non-tick accepted frame with phase SETTLED and msUntilTick above
\* creepDurationMs leaves the phase SETTLED and the shown angle exactly at
\* the base angle, which it leaves unchanged.
C12_SettledNoDrift ==
  [][(/\ NonTickFrame
      /\ secondHandAnimationPhase = "SETTLED"
      /\ MsUntilTickNext > creepDurationMs)
       => /\ secondHandAnimationPhase' = "SETTLED"
          /\ targetSecondBaseAngle' = targetSecondBaseAngle
          /\ currentSecondHandVisualAngle' = targetSecondBaseAngle]_vars

\* A settled hand stayed settled at the base angle of its second on a
\* further frame, 151 ms before the tick.
C12_Witness ==
  /\ frame = "accepted"
  /\ ~newSecondDetected
  /\ framesSinceTick = MaxFramesSinceTick
  /\ previousPhase = "SETTLED"
  /\ secondHandAnimationPhase = "SETTLED"
  /\ currentMilliseconds = 849
  /\ currentSecondHandVisualAngle = Degrees(6 * lastSystemSecond)

\* The shown angle after the step is the creep angle of its sample: base
\* plus (creepDurationMs - msUntilTick) / creepDurationMs of the creep angle.
CreepAngleShown ==
  creepDurationMs * currentSecondHandVisualAngle'
    = creepDurationMs * targetSecondBaseAngle'
        + (creepDurationMs - MsUntilTickNext) * creepAngleDegrees

\* C13 as stated: every non-tick accepted frame inside the creep window
\* shows the creep angle.
C13_AsStated ==
  [][(NonTickFrame /\ InCreepWindowNext) => CreepAngleShown]_vars

\* C13 amended: a non-tick accepted frame inside the creep window shows the
\* creep angle when the phase before it is SETTLED or CREEPING (1 degree
\* above the base at msUntilTick = 75); with phase OVERSHOOT or RECOIL it
\* shows the recoil or the settled angle.
C13_CreepAngle ==
  [][(NonTickFrame /\ InCreepWindowNext)
       => CASE secondHandAnimationPhase \in {"SETTLED", "CREEPING"}
                 -> CreepAngleShown /\ secondHandAnimationPhase' = "CREEPING"
            [] secondHandAnimationPhase = "OVERSHOOT"
                 -> currentSecondHandVisualAngle'
                      = targetSecondBaseAngle + recoilDegrees
            [] OTHER
                 -> currentSecondHandVisualAngle'
                      = targetSecondBaseAngle]_vars

\* A creeping hand was sampled 75 ms before the tick and is shown 1 degree
\* above the base angle.
C13_Witness ==
  /\ frame = "accepted"
  /\ ~newSecondDetected
  /\ previousPhase = "CREEPING"
  /\ ~sampleRepeated
  /\ secondHandAnimationPhase = "CREEPING"
  /\ currentMilliseconds = 925
  /\ VisualOffset = Degrees(1)

\* C14: when an accepted frame keeps the phase CREEPING within the same
\* second and its sampled millisecond is not below that of the frame
\* before, the shown angle does not decrease, and the creep offset lies
\* between 0 and the creep angle.
C14_CreepMonotone ==
  [][(/\ NonTickFrame
      /\ secondHandAnimationPhase = "CREEPING"
      /\ secondHandAnimationPhase' = "CREEPING"
      /\ currentMilliseconds' >= currentMilliseconds)
       => /\ currentSecondHandVisualAngle' >= currentSecondHandVisualAngle
          /\ currentSecondHandVisualAngle' >= targetSecondBaseAngle'
          /\ currentSecondHandVisualAngle'
               <= targetSecondBaseAngle' + creepAngleDegrees]_vars

\* A creeping hand was sampled again later in the window, 1 ms before the
\* tick, and is shown just below the full creep angle.
C14_Witness ==
  /\ frame = "accepted"
  /\ previousPhase = "CREEPING"
  /\ ~sampleRepeated
  /\ secondHandAnimationPhase = "CREEPING"
  /\ currentMilliseconds = 999
  /\ VisualOffset > Degrees(1)
  /\ VisualOffset < creepAngleDegrees

\* C15 as stated: after an accepted frame that sampled h:m:s, the hour angle
\* is ((h mod 12) + m/60 + s/3600) * 30 degrees and the minute angle is
\* (m + s/60) * 6 degrees, both in [0, 360).
C15_AsStated ==
  frame = "accepted"
    => /\ 120 * hourAngle
            = AngleScale * ((currentHours % 12) * 3600
                            + currentMinutes * 60 + currentSeconds)
       /\ 10 * minuteAngle
            = AngleScale * (currentMinutes * 60 + currentSeconds)
       /\ 0 <= hourAngle /\ hourAngle < Degrees(360)
       /\ 0 <= minuteAngle /\ minuteAngle < Degrees(360)

\* C15 amended: the hour angle is ((h mod 12) + m/60) * 30 degrees, without
\* a seconds term; the minute angle is (m + s/60) * 6 degrees; both lie in
\* [0, 360).
C15_HandAngles ==
  frame = "accepted"
    => /\ 2 * hourAngle
            = AngleScale * ((currentHours % 12) * 60 + currentMinutes)
       /\ 10 * minuteAngle
            = AngleScale * (currentMinutes * 60 + currentSeconds)
       /\ 0 <= hourAngle /\ hourAngle < Degrees(360)
       /\ 0 <= minuteAngle /\ minuteAngle < Degrees(360)

\* A frame sampled 23:59:59: the hour hand is at 359.5 degrees, the minute
\* hand at 359.9 degrees.
C15_Witness ==
  /\ frame = "accepted"
  /\ currentHours = 23
  /\ currentMinutes = 59
  /\ currentSeconds = 59
  /\ 2 * hourAngle = Degrees(719)
  /\ 10 * minuteAngle = Degrees(3599)

\* C16: every accepted frame ends with one of the four phases, an observed
\* second in 0..59 and a shown angle within the offset range of its base
\* angle; a non-tick frame that finds an unrecognized phase value ends with
\* phase SETTLED and both angles at the base angle of the sampled second.
C16_NoErrorState ==
  [][frame' = "accepted"
       => /\ secondHandAnimationPhase' \in Phases
          /\ lastSystemSecond' \in Seconds
          /\ currentSecondHandVisualAngle'
               >= targetSecondBaseAngle' + recoilDegrees
          /\ currentSecondHandVisualAngle'
               <= targetSecondBaseAngle' + overshootDegrees
          /\ (/\ secondHandAnimationPhase \notin Phases
              /\ currentSeconds' = lastSystemSecond)
               => /\ secondHandAnimationPhase' = "SETTLED"
                  /\ targetSecondBaseAngle' = Degrees(6 * currentSeconds')
                  /\ currentSecondHandVisualAngle'
                       = Degrees(6 * currentSeconds')]_vars

\* A non-tick frame found an unrecognized phase and reset the hand to
\* SETTLED at the base angle of second 14.
C16_Witness ==
  /\ frame = "accepted"
  /\ ~newSecondDetected
  /\ previousPhase = UnrecognizedPhase
  /\ secondHandAnimationPhase = "SETTLED"
  /\ lastSystemSecond = 14
  /\ targetSecondBaseAngle = Degrees(84)
  /\ currentSecondHandVisualAngle = Degrees(84)

\* C17: with two clock instances, a start, a scheduler callback (accepted,
\* rejected or after a stop) or a stop of one instance leaves the other
\* instance's frame-gate state, second-hand state and running flag as they
\* were; turning to the other instance changes neither instance's state.
C17_InstancesIndependent ==
  [][/\ active' = active
       => /\ other'.lastTimestamp = other.lastTimestamp
          /\ other'.lastRateHz = other.lastRateHz
          /\ other'.lastSystemSecond = other.lastSystemSecond
          /\ other'.secondHandAnimationPhase = other.secondHandAnimationPhase
          /\ other'.targetSecondBaseAngle = other.targetSecondBaseAngle
          /\ other'.currentSecondHandVisualAngle
               = other.currentSecondHandVisualAngle
          /\ other'.isRunning = other.isRunning
     /\ active' # active
       => /\ other' = ThisInstance
          /\ ThisInstance' = other]_vars

\* The second clock has been started, has had a callback rejected and one
\* accepted and has been stopped, while the first clock is still running
\* with the throttle state of its own accepted frame at timestamp 25.
C17_Witness ==
  /\ active = 2
  /\ frame = "destroy"
  /\ ~isRunning
  /\ lastTimestamp = 30
  /\ lastRateHz = 32
  /\ clockMs = 35
  /\ other.isRunning
  /\ other.lastTimestamp = 25
  /\ other.lastRateHz = 38
  /\ other.framePending

\* C18: a non-tick accepted frame with phase SETTLED and
\* 0 < msUntilTick <= creepDurationMs ends, in that same frame, with phase
\* CREEPING and the shown angle at the frame's creep angle; at
\* msUntilTick = creepDurationMs that angle is the base angle.
C18_CreepStartsAtOnce ==
  [][(/\ NonTickFrame
      /\ secondHandAnimationPhase = "SETTLED"
      /\ InCreepWindowNext)
       => /\ secondHandAnimationPhase' = "CREEPING"
          /\ CreepAngleShown
          /\ MsUntilTickNext = creepDurationMs
               => currentSecondHandVisualAngle' = targetSecondBaseAngle']_vars

\* A frame sampled 75 ms before the tick found the hand SETTLED and left it
\* CREEPING, already 1 degree past the base angle.
C18_Witness ==
  /\ frame = "accepted"
  /\ ~newSecondDetected
  /\ previousPhase = "SETTLED"
  /\ secondHandAnimationPhase = "CREEPING"
  /\ currentMilliseconds = 925
  /\ VisualOffset = Degrees(1)

\* C19: a non-tick accepted frame with phase CREEPING whose msUntilTick is
\* not in (0, creepDurationMs] ends with phase SETTLED and the shown angle
\* at the base angle; the last observed second and the base angle are left
\* unchanged.
C19_CreepReverts ==
  [][(/\ NonTickFrame
      /\ secondHandAnimationPhase = "CREEPING"
      /\ ~InCreepWindowNext)
       => /\ secondHandAnimationPhase' = "SETTLED"
          /\ currentSecondHandVisualAngle' = targetSecondBaseAngle'
          /\ lastSystemSecond' = lastSystemSecond
          /\ targetSecondBaseAngle' = targetSecondBaseAngle]_vars

\* The hand was CREEPING and the same second was sampled again at
\* millisecond 0: the hand is back at the base angle, SETTLED.
C19_Witness ==
  /\ frame = "accepted"
  /\ ~newSecondDetected
  /\ previousPhase = "CREEPING"
  /\ secondHandAnimationPhase = "SETTLED"
  /\ currentMilliseconds = 0
  /\ currentSeconds = lastSystemSecond
  /\ VisualOffset = 0

\* C20: when the second sampled by an accepted frame differs by any jump
\* (1 .. 59 modulo 60: one second on, several seconds on, or back) from the
\* second the preceding accepted frame left, the frame is one tick: phase
\* OVERSHOOT, the sampled second recorded directly, both angles taken from
\* the sampled second alone, and the frame is shown.
C20_AnyJumpIsOneTick ==
  [][\A jump \in 1 .. (SecondsPerMinute - 1) :
       (/\ frame' = "accepted"
        /\ FrameProcessed
        /\ lastSystemSecond \in Seconds
        /\ currentSeconds' = (lastSystemSecond + jump) % SecondsPerMinute)
         => /\ newSecondDetected'
            /\ framesSinceTick' = 0
            /\ secondHandAnimationPhase' = "OVERSHOOT"
            /\ lastSystemSecond' = currentSeconds'
            /\ targetSecondBaseAngle' = Degrees(6 * currentSeconds')
            /\ VisualOffset' = overshootDegrees]_vars

\* The clock started at second 15 (last observed second 14); its second
\* processed frame, at timestamp 50, sampled second 13: a jump back, taken
\* as a tick to 78 degrees plus the overshoot.
C20_Witness ==
  /\ frame = "accepted"
  /\ clockMs = 50
  /\ newSecondDetected
  /\ framesSinceTick = 0
  /\ lastSystemSecond = 13
  /\ secondHandAnimationPhase = "OVERSHOOT"
  /\ targetSecondBaseAngle = Degrees(78)
  /\ currentSecondHandVisualAngle = Degrees(80)

\* C21 as stated: the first accepted frame after the start is a tick
\* whatever second it samples: it ends with phase OVERSHOOT and the sampled
\* second as the last observed second.  (Violated: see RESULTS, C21.)
C21_FirstFrameIsTick ==
  [][(frame' = "accepted" /\ ~FrameProcessed)
       => /\ newSecondDetected'
          /\ secondHandAnimationPhase' = "OVERSHOOT"
          /\ lastSystemSecond' = currentSeconds']_vars

\* C22 as stated: while running, an accepted frame takes one sample of the
\* wall clock, advances the phase machine once from the state before the
\* frame with that sample, renders, drawing the hour and minute angles of
\* the sample and the second-hand angle the advance produced, and leaves
\* one callback registered; a rejected frame samples nothing, advances
\* nothing and draws nothing, and leaves one callback registered.
\* (Violated by _animationLoop of the worker: see RESULTS, C22.)
C22_OneSampleAdvanceRender ==
  [][/\ frame' = "accepted"
       => /\ currentSeconds' \in Seconds
          /\ currentMilliseconds' \in 0 .. 999
          /\ CurrentHand'
               = Advance(CurrentHand, currentSeconds', currentMilliseconds')
          /\ rendered'
          /\ drawn'.hourAngle = HourAngle(currentHours', currentMinutes')
          /\ drawn'.minuteAngle
               = MinuteAngle(currentMinutes', currentSeconds')
          /\ drawn'.secondAngle = currentSecondHandVisualAngle'
          /\ framePending'
          /\ pendingCallbacks' = pendingCallbacks
     /\ frame' = "rejected"
       => /\ ~rendered'
          /\ UNCHANGED <<sampleVars, handVars>>
          /\ framePending'
          /\ pendingCallbacks' = pendingCallbacks]_vars

\* C23 as stated: an accepted frame that detects no tick shows the hour and
\* minute angles of the accepted frame before it.
C23_AsStated ==
  [][(/\ NonTickFrame
      /\ FrameProcessed)
       => /\ drawn'.hourAngle = drawn.hourAngle
          /\ drawn'.minuteAngle = drawn.minuteAngle]_vars

\* C23 amended: every accepted frame, tick or not, computes the hour and
\* minute angles from its own sample and draws them; an accepted non-tick
\* frame whose sample shows the hour and minute of the accepted frame
\* before it draws the same two angles as that frame.
C23_AnglesEveryFrame ==
  [][frame' = "accepted"
       => /\ hourAngle' = HourAngle(currentHours', currentMinutes')
          /\ minuteAngle' = MinuteAngle(currentMinutes', currentSeconds')
          /\ drawn'.hourAngle = hourAngle'
          /\ drawn'.minuteAngle = minuteAngle'
          /\ (/\ currentSeconds' = lastSystemSecond
              /\ FrameProcessed
              /\ currentHours' = currentHours
              /\ currentMinutes' = currentMinutes)
               => /\ drawn'.hourAngle = drawn.hourAngle
                  /\ drawn'.minuteAngle = drawn.minuteAngle]_vars

\* A frame that sampled second 15 again, now at 10:10, drew the minute hand
\* at 61.5 degrees and the hour hand at 305 degrees without a tick.
C23_Witness ==
  /\ frame = "accepted"
  /\ ~newSecondDetected
  /\ clockMs = 2 * SteadyDelta
  /\ lastSystemSecond = 15
  /\ currentMinutes = 10
  /\ 2 * drawn.minuteAngle = Degrees(123)
  /\ drawn.hourAngle = Degrees(305)

\* C24 as stated: once a frame has been accepted, the last observed second
\* is in 0..59 and the base angle is 6 degrees times that second, and a
\* step changes either of them only if it is an accepted frame that detects
\* a tick.  (Violated: see RESULTS, C24.)
C24_BaseAngleOfLastSecond ==
  /\ [](FrameProcessed
          => /\ lastSystemSecond \in Seconds
             /\ targetSecondBaseAngle = Degrees(6 * lastSystemSecond))
  /\ [][(/\ FrameProcessed
         /\ ~(frame' = "accepted" /\ newSecondDetected'))
          => UNCHANGED <<lastSystemSecond, targetSecondBaseAngle>>]_vars

\* C25: with timestamps that never decrease, an accepted frame that is not
\* the first one has a timestamp at least 1000 / maxRateHz ms (20 ms) after
\* that of the accepted frame before it, and a callback with the timestamp
\* of the accepted frame before it is rejected.
C25_AcceptedFramesApart ==
  [][/\ (frame' = "accepted" /\ lastTimestamp # SentinelTimestamp)
          => maxRateHz * (lastTimestamp' - lastTimestamp) >= 1000
     /\ (frame' \in {"accepted", "rejected"} /\ clockMs' = lastTimestamp)
          => frame' = "rejected"]_vars

\* The second accepted frame came 21 ms after the first (rate 48 Hz), the
\* closest the throttle lets through.
C25_Witness ==
  /\ frame = "accepted"
  /\ rendered
  /\ lastTimestamp = 41
  /\ lastRateHz = 48

\* C26: at most one animation-frame callback is registered at any time; an
\* 'init' message handled while the renderer is running, whether init is
\* still waiting for the font or has finished, registers none and starts no
\* second init; a callback of a running renderer leaves exactly one
\* callback registered, accepted or rejected.
C26_OnePendingCallback ==
  /\ [](/\ pendingCallbacks <= 1
        /\ framePending <=> pendingCallbacks = 1)
  /\ [][/\ (frame' = "init" /\ isRunning /\ initPc \in {"awaitFont", "done"}
              /\ initPc' # "done")
             => UNCHANGED <<pendingCallbacks, framePending, initPc>>
        /\ (frame' = "init" /\ initPc = "done")
             => UNCHANGED <<pendingCallbacks, framePending, initPc>>
        /\ frame' \in {"accepted", "rejected"}
             => pendingCallbacks' = 1]_vars

\* An 'init' message was handled after the loop had accepted a frame: the
\* renderer is still running with its one callback registered.
C26_Witness ==
  /\ frame = "init"
  /\ isRunning
  /\ initPc = "done"
  /\ lastTimestamp = 25
  /\ clockMs = 30
  /\ pendingCallbacks = 1

\* C27: when 'destroy' has been handled while init was waiting for the
\* font, the renderer is not running, its scene, camera and renderer are
\* null and no callback is registered, and this stays so when init resumes:
\* the resumed init fails without requesting an animation frame.
C27_DestroyDuringInit ==
  /\ [](closing /\ initPc \in {"awaitFont", "failed"}
          => /\ ~isRunning
             /\ ~hasScene
             /\ ~sceneReady
             /\ ~hasAnimationFrameId
             /\ ~framePending
             /\ pendingCallbacks = 0)
  /\ [][(closing /\ initPc = "awaitFont" /\ frame' = "init")
          => /\ initPc' = "failed"
             /\ UNCHANGED <<isRunning, hasScene, sceneReady,
                            hasAnimationFrameId, framePending,
                            pendingCallbacks>>]_vars

\* init resumed after the 'destroy' message and failed: nothing is
\* registered, nothing is running.
C27_Witness ==
  /\ closing
  /\ frame = "init"
  /\ initPc = "failed"
  /\ ~isRunning
  /\ ~hasScene
  /\ ~sceneReady
  /\ pendingCallbacks = 0

\* How many messages of the given type the page has posted.
PostedCount(type) ==
  Cardinality({i \in 1 .. Len(page.posted) : page.posted[i] = type})

\* C28 as stated: once the AnalogueClock exists, 'init' is the first
\* message posted and is posted once; once destroy() has been called no
\* further message is posted, and the destroy() calls together have posted
\* exactly one 'destroy'.
C28_AsStated ==
  /\ [](page.pc = "built"
          => /\ PostedCount("init") = 1
             /\ page.posted[1] = "init")
  /\ [](page.destroyCalls >= 1 => PostedCount("destroy") = 1)
  /\ [][page.destroyCalls >= 1 => page'.posted = page.posted]_vars

\* C28 amended: 'init' is posted at most once and never after another
\* message, and it is the first message whenever the element has been
\* observed, so whenever _init has returned.  When _init throws, the
\* destroy() of the constructor ends the sequence: nothing is ever posted
\* when it throws before the worker is created, 'destroy' is the only
\* message when it throws between creating the worker and posting 'init',
\* and 'init' then 'destroy' are the only messages when it throws after
\* posting 'init'.  Once destroy() has been called no step posts a message
\* (a resize notification and the end of the logo load post nothing), and
\* any number of destroy() calls have posted exactly one 'destroy' if a
\* worker was created, none otherwise.
C28_PageMessages ==
  /\ [](/\ PostedCount("init") <= 1
        /\ \A i \in 2 .. Len(page.posted) : page.posted[i] # "init"
        /\ page.observer => (page.posted # <<>> /\ page.posted[1] = "init")
        /\ (page.posted # <<>> /\ page.posted[1] # "init")
             => page.posted = <<"destroy">>
        /\ (page.pc = "built" /\ ~page.observer)
             => IF page.workerCreated
                THEN /\ page.destroyCalls >= 1
                     /\ page.posted \in {<<"destroy">>,
                                         <<"init", "destroy">>}
                ELSE page.posted = <<>>)
  /\ [](page.destroyCalls >= 1
          => /\ ~page.worker
             /\ PostedCount("destroy")
                  = IF page.workerCreated THEN 1 ELSE 0
             /\ page.workerCreated
                  => page.posted[Len(page.posted)] = "destroy")
  /\ [][page.destroyCalls >= 1 => page'.posted = page.posted]_vars

\* destroy() was called twice while the logo was loading, then the load
\* ended: 'init', one 'resize' and the one 'destroy' are all that was
\* posted.
C28_Witness ==
  /\ page.destroyCalls = 2
  /\ page.observer
  /\ ~page.logoPending
  /\ page.posted = <<"init", "resize", "destroy">>

\* C29: while the clock is running and callbacks keep coming with strictly
\* increasing timestamps, every rejected frame is followed, sooner or
\* later, by an accepted and rendered frame, and frames are accepted and
\* rendered again and again without end.
C29_RejectionNotPermanent ==
  /\ (frame = "rejected") ~> (frame = "accepted" /\ rendered)
  /\ []<>(frame = "accepted" /\ rendered)

\* A frame 5 ms after an accepted one was rejected, after the origin of the
\* time line had been moved.
C29_Witness ==
  /\ frame = "rejected"
  /\ isRunning
  /\ lastTimestamp = 0
  /\ clockMs = 5
  /\ framePending

\* C30: after every accepted frame the offset of the shown angle from the
\* base angle is fixed by the phase: the overshoot in OVERSHOOT, the recoil
\* in RECOIL, 0 in SETTLED, between 0 and the creep angle in CREEPING; a
\* frame that ends in CREEPING detected no tick and found the phase SETTLED
\* or CREEPING.
C30_OffsetByPhase ==
  [][frame' = "accepted"
       => /\ secondHandAnimationPhase' = "OVERSHOOT"
               => VisualOffset' = overshootDegrees
          /\ secondHandAnimationPhase' = "RECOIL"
               => VisualOffset' = recoilDegrees
          /\ secondHandAnimationPhase' = "SETTLED"
               => VisualOffset' = 0
          /\ secondHandAnimationPhase' = "CREEPING"
               => /\ VisualOffset' >= 0
                  /\ VisualOffset' <= creepAngleDegrees
                  /\ ~newSecondDetected'
                  /\ secondHandAnimationPhase \in {"SETTLED", "CREEPING"}
          /\ secondHandAnimationPhase' \in Phases]_vars

\* The hand crept from 1 degree past the base angle (75 ms before the tick)
\* to 1 + 148/150 degrees past it (1 ms before the tick), still CREEPING.
C30_Witness ==
  /\ frame = "accepted"
  /\ previousPhase = "CREEPING"
  /\ secondHandAnimationPhase = "CREEPING"
  /\ currentMilliseconds = 999
  /\ creepDurationMs * VisualOffset = 149 * creepAngleDegrees
  /\ sampleRepeated = FALSE
  /\ framesSinceTick = MaxFramesSinceTick

=============================================================================
